---- MODULE Spec2Model ----
(***************************************************************************)
(* rasor_ratings (src/main.rs): team discovery (get_team_ids), the bounded *)
(* concurrent schedule fetch, the rating engine and the ranked table of    *)
(* main, as a state machine.                                               *)
(***************************************************************************)
EXTENDS Integers, Sequences, FiniteSets, TLC

VARIABLES
    args,            \* Args (main.rs:17-44), fixed by Args::parse()
    pc,              \* position of main / get_team_ids
    page_index,      \* get_team_ids: the request counter (main.rs:356)
    team_ids,        \* get_team_ids: the accumulated Vec<u32>
    pages,           \* the page responses get_team_ids has received so far
    urls,            \* main: the schedule URLs (main.rs:145)
    tasks,           \* per URL: the spawned task, [state, schedule]
    requests,        \* per URL: number of GET requests sent for it
    team_schedules,  \* main: the collected Vec<TeamSchedule>
    fbs_team_ids,    \* main: the ids of the collected schedules (main.rs:185)
    team_ratings,    \* main: Vec<TeamRating>
    table,           \* main: Vec<TableEntry>
    stdout,          \* the tables printed (main.rs:342)
    result           \* "running", "ok" (main returned Ok(())), "err" (main returned Err)

vars == <<args, pc, page_index, team_ids, pages, urls, tasks, requests,
          team_schedules, fbs_team_ids, team_ratings, table, stdout, result>>

\* Option<T>: None is <<>>, Some(x) is <<x>>
None == <<>>

Some(x) == <<x>>

\* ------------------------------------------------------------------ bounds
MaxRequests == 3        \* page requests get_team_ids is followed for
MaxConcurrency == 2     \* largest --max-concurrency
MaxTop == 1             \* largest --top
MaxEventsT == 2         \* events of the first schedule (rating engine inputs)
MaxEventsO == 3         \* events of the second schedule (rating engine inputs)
MaxRatings == 3         \* ratings in the list handed to the table

\* ------------------------------------------------------------ sequences
RECURSIVE SeqsUpTo(_, _)
SeqsUpTo(S, n) ==
    IF n = 0 THEN {<<>>}
    ELSE LET shorter == SeqsUpTo(S, n - 1)
         IN  shorter \cup {Append(s, x) : s \in {t \in shorter : Len(t) = n - 1}, x \in S}

Reverse(s) == [i \in 1..Len(s) |-> s[Len(s) + 1 - i]]

Truncate(s, n) == IF n < Len(s) THEN SubSeq(s, 1, n) ELSE s

RECURSIVE Concat(_)
Concat(ss) == IF ss = <<>> THEN <<>> ELSE Head(ss) \o Concat(Tail(ss))

\* --------------------------------------------------------------- f64
\* An f64 is <<n, d>>: d > 0 is the finite value n/d in lowest terms; d = 0
\* is +inf (n = 1), -inf (n = -1), a NaN with the sign bit clear (n = 2) or
\* set (n = -2).  Finite values are exact: the inputs are small integers.
RECURSIVE Gcd(_, _)
Gcd(a, b) == IF b = 0 THEN a ELSE Gcd(b, a % b)

Abs(n) == IF n < 0 THEN -n ELSE n

Fin(n, d) == LET g == Gcd(Abs(n), d) IN <<n \div g, d \div g>>

NaN(neg) == <<IF neg THEN -2 ELSE 2, 0>>

IsNaN(x) == x[2] = 0 /\ x[1] \in {2, -2}

IsInf(x) == x[2] = 0 /\ x[1] \in {1, -1}

IsFinite(x) == x[2] > 0

\* x + y.  nn: whether an invalid operation yields a NaN with the sign bit set
\* (it does on x86-64, it does not on aarch64).
FAdd(x, y, nn) ==
    IF IsNaN(x) THEN x
    ELSE IF IsNaN(y) THEN y
    ELSE IF IsInf(x) /\ IsInf(y) THEN (IF x = y THEN x ELSE NaN(nn))
    ELSE IF IsInf(x) THEN x
    ELSE IF IsInf(y) THEN y
    ELSE Fin(x[1] * y[2] + y[1] * x[2], x[2] * y[2])

FNeg(x) == IF IsNaN(x) THEN x ELSE <<-x[1], x[2]>>

FSub(x, y, nn) == FAdd(x, FNeg(y), nn)

\* x / (c as f64), c an unsigned count
FDivCount(x, c, nn) ==
    IF IsNaN(x) THEN x
    ELSE IF IsInf(x) THEN x
    ELSE IF c = 0 THEN (IF x[1] = 0 THEN NaN(nn) ELSE <<IF x[1] > 0 THEN 1 ELSE -1, 0>>)
    ELSE Fin(x[1], x[2] * c)

\* f64::total_cmp: -NaN < -inf < finite values < +inf < +NaN
TotalClass(x) == IF IsFinite(x) THEN 0 ELSE x[1]

TotalLess(x, y) ==
    IF TotalClass(x) # TotalClass(y) THEN TotalClass(x) < TotalClass(y)
    ELSE IsFinite(x) /\ x[1] * y[2] < y[1] * x[2]

TotalLeq(x, y) == ~TotalLess(y, x)

\* ------------------------------------------------------- rating engine
\* A competitor's score is an Option<CompetitorScore>; the Number in it is
\* modelled by what as_f64() returns for it.  A competition is a pair of
\* competitors, an event a sequence of competitions, a schedule is
\* [team |-> [id, location], events].
Competitor(id, score) == [id |-> id, score |-> score]

Score(n) == Some([value |-> Some(<<n, 1>>)])

ScoreNotF64 == Some([value |-> None])

\* count and o_count are u8 (main.rs:206, 248); += 1 wraps in a release build
U8Modulus == 256

\* as ScoreAsF64, a missing score taken for 0
ScoreAsF64MissingIsZero(score) ==
    IF score = None THEN Some(<<0, 1>>) ELSE score[1].value

\* Number::as_f64 on an Option<CompetitorScore> (main.rs:223-234, 268-279)
ScoreAsF64(score) ==
    IF score = None THEN None ELSE score[1].value

\* event.competitions.last() (main.rs:208, 250)
LastCompetition(event) == IF Len(event) = 0 THEN None ELSE Some(event[Len(event)])

\* c_index / o_c_index (main.rs:211-217, 253-259), 1-based
SelfIndex(competition, id) == IF competition[1].id = id THEN 1 ELSE 2

OtherIndex(i) == IF i = 1 THEN 2 ELSE 1

\* fbs_team_ids.contains(id) (main.rs:220, 265)
Contains(ids, id) == \E i \in 1..Len(ids) : ids[i] = id

\* the lookup of the opponent's schedule (main.rs:235-245): the last match wins
RECURSIVE FindSchedule(_, _)
FindSchedule(schedules, id) ==
    IF schedules = <<>> THEN None
    ELSE LET n == Len(schedules)
         IN  IF schedules[n].team.id = id THEN Some(schedules[n])
             ELSE FindSchedule(SubSeq(schedules, 1, n - 1), id)

\* as OEventStep, without the test of main.rs:262-264
OEventStepNoMirror(acc, o_event, opponent_id, team_id, fbs, nn) ==
    IF LastCompetition(o_event) = None THEN acc ELSE
    LET o_competition == LastCompetition(o_event)[1]
        o_c_index == SelfIndex(o_competition, opponent_id)
        o_competitor == o_competition[o_c_index]
        o_opponent == o_competition[OtherIndex(o_c_index)]
        s_self == ScoreAsF64(o_competitor.score)
        s_opp == ScoreAsF64(o_opponent.score)
    IN  IF ~Contains(fbs, o_opponent.id) THEN acc
        ELSE IF s_self = None \/ s_opp = None THEN acc
        ELSE [scored |-> FAdd(acc.scored, s_self[1], nn),
              allowed |-> FAdd(acc.allowed, s_opp[1], nn),
              o_count |-> (acc.o_count + 1) % U8Modulus]

\* one pass of 'o_events_loop (main.rs:249-283) over acc = [scored, allowed, o_count]
OEventStep(acc, o_event, opponent_id, team_id, fbs, nn) ==
    IF LastCompetition(o_event) = None THEN acc ELSE
    LET o_competition == LastCompetition(o_event)[1]
        o_c_index == SelfIndex(o_competition, opponent_id)
        o_competitor == o_competition[o_c_index]
        o_opponent == o_competition[OtherIndex(o_c_index)]
        s_self == ScoreAsF64(o_competitor.score)
        s_opp == ScoreAsF64(o_opponent.score)
    IN  IF o_opponent.id = team_id THEN acc
        ELSE IF ~Contains(fbs, o_opponent.id) THEN acc
        ELSE IF s_self = None \/ s_opp = None THEN acc
        ELSE [scored |-> FAdd(acc.scored, s_self[1], nn),
              allowed |-> FAdd(acc.allowed, s_opp[1], nn),
              o_count |-> (acc.o_count + 1) % U8Modulus]

RECURSIVE OEventsLoop(_, _, _, _, _, _)
OEventsLoop(acc, o_events, opponent_id, team_id, fbs, nn) ==
    IF o_events = <<>> THEN acc
    ELSE OEventsLoop(OEventStep(acc, Head(o_events), opponent_id, team_id, fbs, nn),
                     Tail(o_events), opponent_id, team_id, fbs, nn)

\* the opponent's averages (main.rs:246-286): [scored, allowed, o_count]
OpponentAverages(o_events, opponent_id, team_id, fbs, nn) ==
    LET sums == OEventsLoop([scored |-> <<0, 1>>, allowed |-> <<0, 1>>, o_count |-> 0],
                            o_events, opponent_id, team_id, fbs, nn)
    IN  [scored |-> FDivCount(sums.scored, sums.o_count, nn),
         allowed |-> FDivCount(sums.allowed, sums.o_count, nn),
         o_count |-> sums.o_count]

\* one pass of 'events_loop (main.rs:207-291) over acc = [defense, offense, count]
EventStep(acc, event, team_id, schedules, fbs, nn) ==
    IF LastCompetition(event) = None THEN acc ELSE
    LET competition == LastCompetition(event)[1]
        c_index == SelfIndex(competition, team_id)
        competitor == competition[c_index]
        opponent == competition[OtherIndex(c_index)]
        competitor_score == ScoreAsF64(competitor.score)
        opponent_score == ScoreAsF64(opponent.score)
        opponent_ts == FindSchedule(schedules, opponent.id)
    IN  IF ~Contains(fbs, opponent.id) THEN acc
        ELSE IF competitor_score = None \/ opponent_score = None THEN acc
        ELSE IF opponent_ts = None THEN acc
        ELSE LET avg == OpponentAverages(opponent_ts[1].events, opponent.id, team_id, fbs, nn)
             IN  [defense |-> FAdd(acc.defense, FSub(avg.scored, opponent_score[1], nn), nn),
                  offense |-> FAdd(acc.offense, FSub(competitor_score[1], avg.allowed, nn), nn),
                  count |-> (acc.count + 1) % U8Modulus]

RECURSIVE EventsLoop(_, _, _, _, _, _)
EventsLoop(acc, events, team_id, schedules, fbs, nn) ==
    IF events = <<>> THEN acc
    ELSE EventsLoop(EventStep(acc, Head(events), team_id, schedules, fbs, nn),
                    Tail(events), team_id, schedules, fbs, nn)

\* the sums and the counter of one team after 'events_loop
RateLoop(team_schedule, schedules, fbs, nn) ==
    EventsLoop([defense |-> <<0, 1>>, offense |-> <<0, 1>>, count |-> 0],
               team_schedule.events, team_schedule.team.id, schedules, fbs, nn)

\* the closure of .map (main.rs:203-301)
RateTeam(team_schedule, schedules, fbs, nn) ==
    LET acc == RateLoop(team_schedule, schedules, fbs, nn)
    IN  [name |-> team_schedule.team.location,
         defense_rating |-> FDivCount(acc.defense, acc.count, nn),
         offense_rating |-> FDivCount(acc.offense, acc.count, nn)]

\* .filter(...) of main.rs:202
HasEvents(team_schedule) == Len(team_schedule.events) > 0

\* main.rs:185-193
ExtractTeamIds(schedules) == [i \in 1..Len(schedules) |-> schedules[i].team.id]

\* main.rs:195-302: rayon's indexed collect keeps the input order
RECURSIVE CalculateRatings(_, _, _, _)
CalculateRatings(rest, schedules, fbs, nn) ==
    IF rest = <<>> THEN <<>>
    ELSE LET tail == CalculateRatings(Tail(rest), schedules, fbs, nn)
         IN  IF HasEvents(Head(rest))
             THEN <<RateTeam(Head(rest), schedules, fbs, nn)>> \o tail
             ELSE tail

\* ---------------------------------------------------------------- table
\* main.rs:304-314
NewTable(ratings, nn) ==
    [i \in 1..Len(ratings) |->
        [rank |-> 0,
         team |-> ratings[i].name,
         overall_rating |-> FAdd(ratings[i].defense_rating, ratings[i].offense_rating, nn),
         defense_rating |-> ratings[i].defense_rating,
         offense_rating |-> ratings[i].offense_rating]]

\* as InsertSorted, the entry going before the entries that compare equal
RECURSIVE InsertSortedUnstable(_, _, _)
InsertSortedUnstable(sorted, e, field) ==
    IF sorted = <<>> THEN <<e>>
    ELSE IF TotalLeq(e[field], Head(sorted)[field]) THEN <<e>> \o sorted
    ELSE <<Head(sorted)>> \o InsertSortedUnstable(Tail(sorted), e, field)

\* slice::sort_by with total_cmp on one field (main.rs:316, 325, 328):
\* ascending and stable, an entry goes behind every entry that does not
\* compare greater
RECURSIVE InsertSorted(_, _, _)
InsertSorted(sorted, e, field) ==
    IF sorted = <<>> THEN <<e>>
    ELSE IF TotalLess(e[field], Head(sorted)[field]) THEN <<e>> \o sorted
    ELSE <<Head(sorted)>> \o InsertSorted(Tail(sorted), e, field)

RECURSIVE SortBy(_, _)
SortBy(t, field) ==
    IF t = <<>> THEN <<>>
    ELSE InsertSorted(SortBy(SubSeq(t, 1, Len(t) - 1), field), t[Len(t)], field)

\* main.rs:320-322
AssignRanks(t) == [i \in 1..Len(t) |-> [t[i] EXCEPT !.rank = i]]

\* main.rs:304-322
RankedTable(ratings, nn) ==
    AssignRanks(Reverse(SortBy(NewTable(ratings, nn), "overall_rating")))

\* as ApplyOptions, the ranks given to the rows at the end
ApplyOptionsThenRank(t, a) ==
    LET resorted == IF a.defense THEN Reverse(SortBy(t, "defense_rating"))
                    ELSE IF a.offense THEN Reverse(SortBy(t, "offense_rating"))
                    ELSE t
        reversed == IF a.reverse THEN Reverse(resorted) ELSE resorted
    IN  AssignRanks(IF a.top # None THEN Truncate(reversed, a.top[1]) ELSE reversed)

\* main.rs:324-338
ApplyOptions(t, a) ==
    LET resorted == IF a.defense THEN Reverse(SortBy(t, "defense_rating"))
                    ELSE IF a.offense THEN Reverse(SortBy(t, "offense_rating"))
                    ELSE t
        reversed == IF a.reverse THEN Reverse(resorted) ELSE resorted
    IN  IF a.top # None THEN Truncate(reversed, a.top[1]) ELSE reversed

\* ------------------------------------------------------------- discovery
\* A URL is its sequence of characters.
Digits == <<"0", "1", "2", "3", "4", "5", "6", "7", "8", "9">>

IsDigit(c) == \E i \in 1..10 : Digits[i] = c

DigitValue(c) == (CHOOSE i \in 1..10 : Digits[i] = c) - 1

\* u32::MAX, 4294967295, as its digits
U32MaxDigits == <<"4", "2", "9", "4", "9", "6", "7", "2", "9", "5">>

RECURSIVE StripZeros(_)
StripZeros(digits) ==
    IF Len(digits) > 1 /\ digits[1] = "0" THEN StripZeros(Tail(digits)) ELSE digits

RECURSIVE DigitsLeq(_, _)
DigitsLeq(a, b) ==
    IF a = <<>> THEN TRUE
    ELSE IF DigitValue(a[1]) # DigitValue(b[1]) THEN DigitValue(a[1]) < DigitValue(b[1])
    ELSE DigitsLeq(Tail(a), Tail(b))

FitsU32(digits) ==
    LET d == StripZeros(digits)
    IN  Len(d) < Len(U32MaxDigits) \/ (Len(d) = Len(U32MaxDigits) /\ DigitsLeq(d, U32MaxDigits))

\* str::rsplit_once('/'): the text behind the last '/'
RSplitOnce(chars, sep) ==
    IF \E i \in 1..Len(chars) : chars[i] = sep
    THEN LET k == CHOOSE i \in 1..Len(chars) :
                     chars[i] = sep /\ \A j \in (i + 1)..Len(chars) : chars[j] # sep
         IN  Some(<<SubSeq(chars, 1, k - 1), SubSeq(chars, k + 1, Len(chars))>>)
    ELSE None

\* str::split_once('?'): the text before the first '?'
SplitOnce(chars, sep) ==
    IF \E i \in 1..Len(chars) : chars[i] = sep
    THEN LET k == CHOOSE i \in 1..Len(chars) :
                     chars[i] = sep /\ \A j \in 1..(i - 1) : chars[j] # sep
         IN  Some(<<SubSeq(chars, 1, k - 1), SubSeq(chars, k + 1, Len(chars))>>)
    ELSE None

RECURSIVE DecimalValue(_)
DecimalValue(chars) ==
    IF chars = <<>> THEN 0
    ELSE 10 * DecimalValue(SubSeq(chars, 1, Len(chars) - 1)) + DigitValue(chars[Len(chars)])

\* str::parse::<u32>(): an optional '+', then one or more digits, at most u32::MAX
ParseU32(chars) ==
    LET digits == IF chars # <<>> /\ chars[1] = "+" THEN Tail(chars) ELSE chars
    IN  IF digits = <<>> \/ \E i \in 1..Len(digits) : ~IsDigit(digits[i]) THEN None
        ELSE IF ~FitsU32(digits) THEN None
        ELSE Some(DecimalValue(digits))

\* the closure of filter_map (main.rs:376-387)
ParseTeamId(url) ==
    LET first_split == RSplitOnce(url, "/") IN
    IF first_split = None THEN None ELSE
    LET second_split == SplitOnce(first_split[1][2], "?") IN
    IF second_split = None THEN None
    ELSE ParseU32(second_split[1][1])

\* main.rs:368-388
RECURSIVE IterationTeamIds(_)
IterationTeamIds(items) ==
    IF items = <<>> THEN <<>>
    ELSE LET id == ParseTeamId(Head(items))
         IN  (IF id = None THEN <<>> ELSE <<id[1]>>) \o IterationTeamIds(Tail(items))

\* serde_json::Number, and its == (main.rs:392): numbers of different
\* representation (2 and 2.0) are not equal
PosInt(n) == [kind |-> "PosInt", v |-> n]

Float(n) == [kind |-> "Float", v |-> n]

NumberEq(a, b) == a.kind = b.kind /\ a.v = b.v

\* as LastPage, by a page without items
LastPageByItems(page) == page.items = <<>>

\* main.rs:392-394
LastPage(page) == NumberEq(page.page_index, page.page_count)

\* ---------------------------------------------------------------- inputs
\* Args (main.rs:17-44); sport, league, season and group only select the URLs
MkArgs(c, top, reverse, defense, offense) ==
    [max_concurrency |-> c, top |-> top, reverse |-> reverse,
     defense |-> defense, offense |-> offense]

DefaultMaxConcurrency == 8

\* defense conflicts_with offense (main.rs:39-43)
SortFlags == {<<FALSE, FALSE>>, <<TRUE, FALSE>>, <<FALSE, TRUE>>}

\* the full run: every concurrency limit, the presentation flags at their defaults
RunArgs == {MkArgs(c, None, FALSE, FALSE, FALSE) : c \in 0..MaxConcurrency}

\* the table: every combination of the presentation flags
TableArgs ==
    {MkArgs(DefaultMaxConcurrency, top, r, f[1], f[2]) :
        top \in {None} \cup {Some(n) : n \in 0..MaxTop}, r \in BOOLEAN, f \in SortFlags}

\* the items of a page of the listing
UrlTeam1 == <<"t", "/", "1", "?", "l">>

UrlTeam2 == <<"t", "/", "2", "?", "l">>

UrlNoQuery == <<"t", "/", "1">>

UrlNotNumeric == <<"t", "/", "x", "?", "l">>

ItemLists == {<<>>, <<UrlTeam1>>, <<UrlTeam2>>, <<UrlNoQuery>>, <<UrlTeam2, UrlNotNumeric>>}

PageHeaders ==
    {<<PosInt(1), PosInt(1)>>, <<PosInt(1), PosInt(2)>>, <<PosInt(2), PosInt(2)>>,
     <<PosInt(2), Float(2)>>, <<PosInt(2), PosInt(1)>>}

\* what a page request is answered with: a PaginatedItems ...
Pages == {[status |-> "ok", page_index |-> h[1], page_count |-> h[2], items |-> it] :
            h \in PageHeaders, it \in ItemLists}

\* ... or no response ("send_err"), or a body that is no PaginatedItems ("json_err")
PageFailures == {"send_err", "json_err"}

NoPage(how) == [status |-> how, page_index |-> PosInt(0), page_count |-> PosInt(0), items |-> <<>>]

Location(id) == IF id = 1 THEN "A" ELSE IF id = 2 THEN "B" ELSE "C"

Schedule(id, events) == [team |-> [id |-> id, location |-> Location(id)], events |-> events]

Competition(id1, score1, id2, score2) == <<Competitor(id1, score1), Competitor(id2, score2)>>

\* the events a team's schedule is built from: one's own id first or second,
\* each kind of opponent (the other team, team 3, the never fetched team 4) and
\* each way a score can be unusable
EventKinds(owner, other) ==
    << <<Competition(owner, Score(3), other, Score(1))>>,
       <<Competition(other, Score(2), owner, Score(0))>>,
       <<Competition(owner, Score(2), 3, Score(1))>>,
       <<Competition(owner, Score(1), 4, Score(4))>>,
       <<Competition(owner, None, other, Score(1))>>,
       <<Competition(owner, Score(2), other, ScoreNotF64)>> >>

\* an event without competitions, and one whose last competition differs from
\* its first
NoCompetitions == <<>>

Replayed(owner, other) ==
    <<Competition(owner, Score(5), 4, Score(5)), Competition(other, Score(1), owner, Score(2))>>

\* the event lists of at most n events; the sums of the rating engine do not
\* depend on the order of the events, so one order per choice of events
EventLists(owner, other, n) ==
    LET kinds == EventKinds(owner, other)
        picks == {s \in SeqsUpTo(1..Len(kinds), n) :
                    \A i \in 1..(Len(s) - 1) : s[i] <= s[i + 1]}
    IN  {[i \in 1..Len(s) |-> kinds[s[i]]] : s \in picks}

\* the schedule lists handed to the rating engine: teams 1 and 2, with or
\* without team 3; team 4 is never fetched
ThirdSchedule == Schedule(3, <<NoCompetitions, Replayed(3, 2)>>)

ScheduleLists ==
    LET firsts == {Schedule(1, ev) : ev \in EventLists(1, 2, MaxEventsT)}
        seconds == {Schedule(2, ev) : ev \in EventLists(2, 1, MaxEventsO)}
    IN  {<<t, o>> : t \in firsts, o \in seconds}
        \cup {<<t, o, ThirdSchedule>> : t \in firsts, o \in seconds}

\* what the schedule endpoint answers for a team in the full run
OtherTeam(id) == IF id = 1 THEN 2 ELSE 1

Responses(id) ==
    {Schedule(id, <<>>),
     Schedule(id, <<NoCompetitions, <<Competition(id, Score(3), OtherTeam(id), Score(1))>>>>)}

\* the rating lists handed to the table: both ratings of a team are finite, or
\* both are the NaN of a zero count
RatingRows(nn) ==
    {[name |-> "A", defense_rating |-> <<1, 1>>, offense_rating |-> <<0, 1>>],
     [name |-> "B", defense_rating |-> <<0, 1>>, offense_rating |-> <<1, 1>>],
     [name |-> "C", defense_rating |-> <<0, 1>>, offense_rating |-> <<0, 1>>],
     [name |-> "A", defense_rating |-> NaN(nn), offense_rating |-> NaN(nn)],
     [name |-> "B", defense_rating |-> NaN(nn), offense_rating |-> NaN(nn)]}

RatingLists == UNION {SeqsUpTo(RatingRows(nn), MaxRatings) : nn \in BOOLEAN}

\* ------------------------------------------------------------------ tasks
Unspawned == [state |-> "unspawned", schedule |-> None]

Running == [state |-> "running", schedule |-> None]

Failed(how) == [state |-> how, schedule |-> None]

Fetched(schedule) == [state |-> "ok", schedule |-> Some(schedule)]

FetchFailures == {"send_err", "json_err", "join_err"}

InFlight == {i \in 1..Len(tasks) : tasks[i].state = "running"}

NotSpawned == {i \in 1..Len(tasks) : tasks[i].state = "unspawned"}

\* format!(".../teams/{}/schedule?season={}", ...) (main.rs:152-157)
ScheduleUrl(team_id) == <<"teams", team_id, "schedule">>

\* ------------------------------------------------------------------ Init
Init ==
    /\ args \in RunArgs
    /\ pc = "discover"
    /\ page_index = 0
    /\ team_ids = <<>>
    /\ pages = <<>>
    /\ urls = <<>>
    /\ tasks = <<>>
    /\ requests = <<>>
    /\ team_schedules = <<>>
    /\ fbs_team_ids = <<>>
    /\ team_ratings = <<>>
    /\ table = <<>>
    /\ stdout = <<>>
    /\ result = "running"

\* the state when the fetch has collected `schedules`
AtRate(schedules) ==
    /\ pc = "rate"
    /\ page_index = 1
    /\ team_ids = ExtractTeamIds(schedules)
    /\ pages = <<>>
    /\ urls = [i \in 1..Len(schedules) |-> ScheduleUrl(schedules[i].team.id)]
    /\ tasks = [i \in 1..Len(schedules) |-> Fetched(schedules[i])]
    /\ requests = [i \in 1..Len(schedules) |-> 1]
    /\ team_schedules = schedules
    /\ fbs_team_ids = <<>>
    /\ team_ratings = <<>>
    /\ table = <<>>
    /\ stdout = <<>>
    /\ result = "running"

InitRating ==
    /\ args = MkArgs(DefaultMaxConcurrency, None, FALSE, FALSE, FALSE)
    /\ \E schedules \in ScheduleLists : AtRate(schedules)

\* the state when the rating engine has produced `ratings`
InitTable ==
    /\ args \in TableArgs
    /\ pc = "table"
    /\ page_index = 1
    /\ team_ids = <<>>
    /\ pages = <<>>
    /\ urls = <<>>
    /\ tasks = <<>>
    /\ requests = <<>>
    /\ team_schedules = <<>>
    /\ fbs_team_ids = <<>>
    /\ team_ratings \in RatingLists
    /\ table = <<>>
    /\ stdout = <<>>
    /\ result = "running"

\* --------------------------------------------------------------- actions
\* as PageRequestFails, the error taken for the end of the listing
PageRequestFailsSwallowed ==
    /\ pc = "discover"
    /\ page_index < MaxRequests
    /\ \E how \in PageFailures : pages' = Append(pages, NoPage(how))
    /\ page_index' = page_index + 1
    /\ pc' = "discovered"
    /\ UNCHANGED <<args, team_ids, urls, tasks, requests, team_schedules,
                   fbs_team_ids, team_ratings, table, stdout, result>>

\* get_team_ids, one pass of the loop in which the request fails (main.rs:365)
\* or its body is no PaginatedItems (main.rs:366): `?` returns the error, and
\* main returns it (main.rs:143)
PageRequestFails ==
    /\ pc = "discover"
    /\ page_index < MaxRequests
    /\ \E how \in PageFailures : pages' = Append(pages, NoPage(how))
    /\ page_index' = page_index + 1
    /\ pc' = "done"
    /\ result' = "err"
    /\ UNCHANGED <<args, team_ids, urls, tasks, requests, team_schedules,
                   fbs_team_ids, team_ratings, table, stdout>>

\* get_team_ids, one pass of the loop (main.rs:358-395)
PageReceived ==
    /\ pc = "discover"
    /\ page_index < MaxRequests
    /\ \E teams_response_data \in Pages :
        /\ page_index' = page_index + 1
        /\ pages' = Append(pages, teams_response_data)
        /\ team_ids' = team_ids \o IterationTeamIds(teams_response_data.items)
        /\ pc' = IF LastPage(teams_response_data) THEN "discovered" ELSE "discover"
    /\ UNCHANGED <<args, urls, tasks, requests, team_schedules, fbs_team_ids,
                   team_ratings, table, stdout, result>>

\* get_team_ids returns Ok(team_ids), its page responses are dropped with it;
\* main builds the URLs and the stream (main.rs:397, 136-167)
GenerateUrls ==
    /\ pc = "discovered"
    /\ pc' = "fetch"
    /\ pages' = <<>>
    /\ urls' = [i \in 1..Len(team_ids) |-> ScheduleUrl(team_ids[i])]
    /\ tasks' = [i \in 1..Len(team_ids) |-> Unspawned]
    /\ requests' = [i \in 1..Len(team_ids) |-> 0]
    /\ UNCHANGED <<args, page_index, team_ids, team_schedules, fbs_team_ids,
                   team_ratings, table, stdout, result>>

\* as CanSpawn, without a limit
CanSpawnUnbounded == TRUE

\* buffer_unordered pulls the next URL from the stream while fewer than
\* max_concurrency futures are in progress; .map spawns its task, which sends
\* the request (main.rs:168-175)
CanSpawn == Cardinality(InFlight) < args.max_concurrency

SpawnFetch ==
    /\ pc = "fetch"
    /\ NotSpawned # {}
    /\ CanSpawn
    /\ LET i == CHOOSE k \in NotSpawned : \A j \in NotSpawned : k <= j
       IN  /\ tasks' = [tasks EXCEPT ![i] = Running]
           /\ requests' = [requests EXCEPT ![i] = @ + 1]
    /\ UNCHANGED <<args, pc, page_index, team_ids, pages, urls, team_schedules,
                   fbs_team_ids, team_ratings, table, stdout, result>>

\* as FilterMap, a failure emptying the list
FilterMapFailFast(collected, x) ==
    IF x.state = "ok" THEN Append(collected, x.schedule[1]) ELSE <<>>

\* filter_map (main.rs:176-181) and collect: Ok(Ok(x)) is kept, anything else
\* is dropped
FilterMap(collected, x) ==
    IF x.state = "ok" THEN Append(collected, x.schedule[1]) ELSE collected

\* a task ends with a TeamSchedule (main.rs:171-172)
FetchSucceeds ==
    /\ pc = "fetch"
    /\ \E i \in InFlight : \E schedule \in Responses(urls[i][2]) :
        /\ tasks' = [tasks EXCEPT ![i] = Fetched(schedule)]
        /\ team_schedules' = FilterMap(team_schedules, Fetched(schedule))
    /\ UNCHANGED <<args, pc, page_index, team_ids, pages, urls, requests,
                   fbs_team_ids, team_ratings, table, stdout, result>>

\* a task ends with a reqwest error ("send_err", "json_err", main.rs:171-172)
\* or does not run to its end ("join_err")
FetchFails ==
    /\ pc = "fetch"
    /\ \E i \in InFlight : \E how \in FetchFailures :
        /\ tasks' = [tasks EXCEPT ![i] = Failed(how)]
        /\ team_schedules' = FilterMap(team_schedules, Failed(how))
    /\ UNCHANGED <<args, pc, page_index, team_ids, pages, urls, requests,
                   fbs_team_ids, team_ratings, table, stdout, result>>

\* the buffered stream ends: it has polled the URL stream to its end, which it
\* does only while fewer than max_concurrency futures are in progress, and no
\* future is in progress (main.rs:175-183)
FetchDone ==
    /\ pc = "fetch"
    /\ NotSpawned = {}
    /\ InFlight = {}
    /\ 0 < args.max_concurrency
    /\ pc' = "rate"
    /\ UNCHANGED <<args, page_index, team_ids, pages, urls, tasks, requests,
                   team_schedules, fbs_team_ids, team_ratings, table, stdout, result>>

\* main.rs:185-302
ComputeRatings ==
    /\ pc = "rate"
    /\ fbs_team_ids' = ExtractTeamIds(team_schedules)
    /\ \E nn \in BOOLEAN :
        team_ratings' = CalculateRatings(team_schedules, team_schedules,
                                         ExtractTeamIds(team_schedules), nn)
    /\ pc' = "table"
    /\ UNCHANGED <<args, page_index, team_ids, pages, urls, tasks, requests,
                   team_schedules, table, stdout, result>>

\* main.rs:304-322
RankTable ==
    /\ pc = "table"
    /\ \E nn \in BOOLEAN : table' = RankedTable(team_ratings, nn)
    /\ pc' = "options"
    /\ UNCHANGED <<args, page_index, team_ids, pages, urls, tasks, requests,
                   team_schedules, fbs_team_ids, team_ratings, stdout, result>>

\* main.rs:324-344
PrintTable ==
    /\ pc = "options"
    /\ table' = ApplyOptions(table, args)
    /\ stdout' = Append(stdout, ApplyOptions(table, args))
    /\ pc' = "done"
    /\ result' = "ok"
    /\ UNCHANGED <<args, page_index, team_ids, pages, urls, tasks, requests,
                   team_schedules, fbs_team_ids, team_ratings>>

Next ==
    \/ PageRequestFails
    \/ PageReceived
    \/ GenerateUrls
    \/ SpawnFetch
    \/ FetchSucceeds
    \/ FetchFails
    \/ FetchDone
    \/ ComputeRatings
    \/ RankTable
    \/ PrintTable

Spec == Init /\ [][Next]_vars

\* every request that was sent is answered, and main is scheduled
FairSpec == Init /\ [][Next]_vars /\ WF_vars(Next)

NextRating == ComputeRatings \/ RankTable \/ PrintTable

RatingSpec == InitRating /\ [][NextRating]_vars

NextTable == RankTable \/ PrintTable

TableSpec == InitTable /\ [][NextTable]_vars

\* ---------------------------------------------------------------- claims
ReportsLastPage(page) == page.page_index = page.page_count

IndexIncreases(ps) ==
    \A i \in 1..Len(ps) : \A j \in 1..Len(ps) : i < j => ps[i].page_index.v < ps[j].page_index.v

ParsedFrom(ps) == Concat([i \in 1..Len(ps) |-> IterationTeamIds(ps[i].items)])

Range(s) == {s[i] : i \in 1..Len(s)}

\* C1: get_team_ids goes on while no page has reported pageIndex == pageCount,
\* returns right after the first page that does, however many items the pages
\* hold, and returns the team ids parsed from the pages it fetched, in order
\* (so, as a set, their union).
C1_DiscoveryReturnsAtLastPage ==
    /\ pc = "discover" =>
        /\ \A i \in 1..Len(pages) : ~ReportsLastPage(pages[i])
        /\ team_ids = ParsedFrom(pages)
    /\ pc = "discovered" =>
        /\ Len(pages) = page_index
        /\ Len(pages) >= 1
        /\ ReportsLastPage(pages[Len(pages)])
        /\ \A i \in 1..(Len(pages) - 1) : ~ReportsLastPage(pages[i])
        /\ team_ids = ParsedFrom(pages)
        /\ Range(team_ids) = UNION {Range(IterationTeamIds(pages[i].items)) : i \in 1..Len(pages)}

\* discovery returned after two pages whose pageIndex increased to pageCount,
\* one of them empty and not the last, with an id parsed and an item dropped
C1_Witness ==
    /\ pc = "discovered"
    /\ Len(pages) = 2
    /\ IndexIncreases(pages)
    /\ pages[1].items = <<>>
    /\ Len(pages[2].items) = 2
    /\ team_ids = <<2>>

Resolved == {i \in 1..Len(tasks) : tasks[i].state \notin {"unspawned", "running"}}

Succeeded == {i \in 1..Len(tasks) : tasks[i].state = "ok"}

Occurrences(s, x) == Cardinality({i \in 1..Len(s) : s[i] = x})

\* C2: whatever the order in which the fetches end, the collected list holds
\* exactly the schedules of the fetches that succeeded (each as often as it was
\* fetched), a failure neither ends the run nor removes a schedule, and the
\* ids the rating engine takes as known are the ids of exactly those schedules.
C2_FetchIsolation ==
    /\ pc \in {"fetch", "rate", "table", "options"} =>
        /\ result = "running"
        /\ Len(team_schedules) = Cardinality(Succeeded)
        /\ \A i \in Succeeded :
            Occurrences(team_schedules, tasks[i].schedule[1])
              = Cardinality({j \in Succeeded : tasks[j].schedule = tasks[i].schedule})
    /\ pc \in {"table", "options", "done"} /\ result # "err" =>
        /\ Range(fbs_team_ids) = {tasks[i].schedule[1].team.id : i \in Succeeded}
        /\ Len(fbs_team_ids) = Cardinality(Succeeded)

\* of three fetches the first failed and the two others succeeded, the later
\* URL first, and the rating engine has taken the known ids
C2_Witness ==
    /\ pc = "table"
    /\ Len(tasks) = 3
    /\ tasks[1].state = "send_err"
    /\ Succeeded = {2, 3}
    /\ team_schedules = <<tasks[3].schedule[1], tasks[2].schedule[1]>>
    /\ Range(fbs_team_ids) = {1, 2}

\* C8: a page request that fails, or whose body does not parse, ends the run
\* with an error before any schedule is requested and without a table; a run
\* ends with an error for no other reason, whatever the schedule fetches do.
C8_DiscoveryFailureIsFatal ==
    /\ (\E i \in 1..Len(pages) : pages[i].status # "ok") =>
        /\ pc = "done"
        /\ result = "err"
    /\ result = "err" =>
        /\ pc = "done"
        /\ \E i \in 1..Len(pages) : pages[i].status # "ok"
        /\ urls = <<>> /\ tasks = <<>> /\ requests = <<>>
        /\ team_schedules = <<>>
        /\ stdout = <<>>
    /\ (\E i \in 1..Len(tasks) : tasks[i].state \in FetchFailures) => result # "err"

\* the second page request failed after a first page with a team id on it
C8_Witness ==
    /\ result = "err"
    /\ Len(pages) = 2
    /\ pages[2].status = "json_err"
    /\ team_ids # <<>>

\* a run in which every fetch failed still printed its table
C8_AllFetchesFailed ==
    /\ pc = "done"
    /\ result = "ok"
    /\ Len(tasks) >= 2
    /\ \A i \in 1..Len(tasks) : tasks[i].state \in FetchFailures
    /\ Len(stdout) = 1

\* C9: at most max_concurrency fetches are started and not ended; a URL is
\* requested when its task is spawned and never again, so once the fetch phase
\* is over each URL has been requested exactly once, the failed ones too.
C9_BoundedConcurrency ==
    /\ Len(tasks) = Len(urls) /\ Len(requests) = Len(urls)
    /\ Cardinality(InFlight) <= args.max_concurrency
    /\ \A i \in 1..Len(urls) :
        /\ requests[i] <= 1
        /\ requests[i] = 1 <=> tasks[i].state # "unspawned"
    /\ pc \in {"rate", "table", "options"} =>
        \A i \in 1..Len(urls) : requests[i] = 1 /\ i \in Resolved

\* the limit is reached with a URL still waiting behind a fetch that failed
C9_Witness ==
    /\ pc = "fetch"
    /\ Len(urls) = 3
    /\ args.max_concurrency = 1
    /\ tasks[1].state \in FetchFailures
    /\ tasks[2].state = "running"
    /\ tasks[3].state = "unspawned"
    /\ requests = <<1, 1, 0>>

\* C10: once the fetch phase has begun, with every started request answered,
\* the rating computation eventually starts, for every concurrency limit,
\* 0 included.
C10_FetchPhaseCompletes == (pc = "fetch") ~> (pc = "rate")

\* C10, in a finite run: while the fetch phase lasts, a fetch can be started,
\* a started fetch can end, or the phase can end.
C10_FetchPhaseNeverStalls ==
    pc = "fetch" => ENABLED (SpawnFetch \/ FetchSucceeds \/ FetchFails \/ FetchDone)

\* C10, the barrier: the rating computation starts only after every fetch has
\* been started and has ended.
C10_RatingAfterAllFetches ==
    pc \in {"rate", "table", "options"} => Resolved = 1..Len(urls)

\* --------------------------------------------- claims on the rating engine
\* whether the event is a game of `team_id` that the spec counts: it has a
\* last competition, the opponent in it is a known team, and both competitors
\* have a score that is a number
HasNumber(score) == score # None /\ score[1].value # None

OpponentIn(competition, team_id) ==
    IF competition[1].id = team_id THEN competition[2] ELSE competition[1]

UsableGame(event, team_id, known) ==
    /\ Len(event) > 0
    /\ OpponentIn(event[Len(event)], team_id).id \in known
    /\ HasNumber(event[Len(event)][1].score)
    /\ HasNumber(event[Len(event)][2].score)

UsableGames(team_schedule, known) ==
    {i \in 1..Len(team_schedule.events) :
        UsableGame(team_schedule.events[i], team_schedule.team.id, known)}

KnownTeamSet == {team_schedules[i].team.id : i \in 1..Len(team_schedules)}

\* the rating engine has run
Rated == pc = "table"

\* C3: a team without a usable game has no rating and no row: the ratings are
\* those of the teams with at least one usable game, one each, and none of
\* them is a NaN.
C3_ZeroGameTeamsOmitted ==
    pc \in {"table", "options", "done"} /\ result # "err" =>
        /\ \A i \in 1..Len(team_ratings) :
            ~IsNaN(team_ratings[i].defense_rating) /\ ~IsNaN(team_ratings[i].offense_rating)
        /\ pc = "done" /\ args.top = None => Len(table) = Len(team_ratings)
        /\ Len(team_ratings)
             = Cardinality({i \in 1..Len(team_schedules) :
                              UsableGames(team_schedules[i], KnownTeamSet) # {}})

\* the team's schedule with only its usable games
OnlyUsable(team_schedule, known) ==
    LET Usable(event) == UsableGame(event, team_schedule.team.id, known)
    IN  [team_schedule EXCEPT !.events = SelectSeq(team_schedule.events, Usable)]

RatedSchedules == SelectSeq(team_schedules, HasEvents)

\* C5: only a game against a known opponent in which both competitors have a
\* numeric score moves a team's counter and sums: the counter is the number of
\* such games, and the ratings are what they would be had no other game been
\* in the team's schedule.
C5_OnlyUsableGamesCount ==
    Rated =>
        /\ fbs_team_ids = ExtractTeamIds(team_schedules)
        /\ \A i \in 1..Len(team_schedules) :
            RateLoop(team_schedules[i], team_schedules, fbs_team_ids, FALSE).count
              = Cardinality(UsableGames(team_schedules[i], KnownTeamSet))
        /\ \E nn \in BOOLEAN :
            team_ratings = [i \in 1..Len(RatedSchedules) |->
                RateTeam(OnlyUsable(RatedSchedules[i], KnownTeamSet),
                         team_schedules, fbs_team_ids, nn)]

\* team 1 has a game with both scores against team 4, which was not fetched,
\* next to a counted game, and its ratings are numbers
C5_Witness ==
    /\ pc = "table"
    /\ 4 \notin KnownTeamSet
    /\ \E i \in 1..Len(team_schedules[1].events) :
        LET event == team_schedules[1].events[i]
        IN  /\ Len(event) > 0
            /\ OpponentIn(event[Len(event)], 1).id = 4
            /\ HasNumber(event[Len(event)][1].score)
            /\ HasNumber(event[Len(event)][2].score)
    /\ Cardinality(UsableGames(team_schedules[1], KnownTeamSet)) = 1
    /\ IsFinite(team_ratings[1].defense_rating)
    /\ IsFinite(team_ratings[1].offense_rating)

\* whether the event's last competition is between teams a and b
GameBetween(event, a, b) ==
    /\ Len(event) > 0
    /\ \/ event[Len(event)][1].id = a /\ event[Len(event)][2].id = b
       \/ event[Len(event)][1].id = b /\ event[Len(event)][2].id = a

\* the schedules, those of other teams without their games against team_id
WithoutGamesAgainst(schedules, team_id) ==
    [j \in 1..Len(schedules) |->
        LET NotAgainst(event) == ~GameBetween(event, schedules[j].team.id, team_id)
        IN  IF schedules[j].team.id = team_id THEN schedules[j]
            ELSE [schedules[j] EXCEPT !.events = SelectSeq(schedules[j].events, NotAgainst)]]

\* C4: the averages of an opponent O that enter the rating of T take nothing
\* from O's games against T, however many there are: they, and T's ratings,
\* are what they would be had O's schedule not held those games.
C4_MirrorMatchesExcluded ==
    Rated =>
        /\ \A i \in 1..Len(team_schedules) : \A j \in 1..Len(team_schedules) :
            LET t == team_schedules[i].team.id
                o == team_schedules[j].team.id
            IN  t # o =>
                  OpponentAverages(team_schedules[j].events, o, t, fbs_team_ids, FALSE)
                    = OpponentAverages(WithoutGamesAgainst(team_schedules, t)[j].events,
                                       o, t, fbs_team_ids, FALSE)
        /\ \E nn \in BOOLEAN :
            team_ratings = [i \in 1..Len(RatedSchedules) |->
                RateTeam(RatedSchedules[i],
                         WithoutGamesAgainst(team_schedules, RatedSchedules[i].team.id),
                         fbs_team_ids, nn)]

\* team 1 played team 2 twice, both games are in team 2's schedule next to a
\* game against team 3, and team 1 is rated against that one game alone:
\* defense ((2 - 1) + (2 - 2)) / 2, offense ((3 - 1) + (0 - 1)) / 2
C4_Witness ==
    /\ pc = "table"
    /\ Len(team_schedules) = 3
    /\ team_schedules[1].events = <<EventKinds(1, 2)[1], EventKinds(1, 2)[2]>>
    /\ team_schedules[2].events
         = <<EventKinds(2, 1)[1], EventKinds(2, 1)[2], EventKinds(2, 1)[3]>>
    /\ team_ratings[1] = [name |-> "A", defense_rating |-> <<1, 2>>, offense_rating |-> <<1, 2>>]

\* ------------------------------------------------------ claims on the table
Flagless == ~args.defense /\ ~args.offense /\ ~args.reverse

\* C6 as claimed: whatever the options, the i-th row printed has rank i.
C6_RankIsPrintedPosition ==
    pc = "done" /\ result = "ok" => \A i \in 1..Len(table) : table[i].rank = i

\* C6: the ranks are 1-based positions in the order of descending
\* overall_rating, given before the options are applied: a row with a smaller
\* rank has no smaller overall_rating, the ranks are distinct and at most the
\* number of ratings, and the i-th row printed has rank i when neither
\* --defense, --offense nor --reverse is given.
C6_RankIsOverallPosition ==
    /\ pc = "options" =>
        /\ Len(table) = Len(team_ratings)
        /\ \A i \in 1..Len(table) : table[i].rank = i
    /\ pc \in {"options", "done"} /\ result # "err" =>
        /\ \A i \in 1..Len(table) : table[i].rank \in 1..Len(team_ratings)
        /\ \A i \in 1..Len(table) : \A j \in 1..Len(table) :
            /\ i # j => table[i].rank # table[j].rank
            /\ table[i].rank < table[j].rank
                 => TotalLeq(table[j].overall_rating, table[i].overall_rating)
    /\ pc = "done" /\ result = "ok" /\ Flagless =>
        \A i \in 1..Len(table) : table[i].rank = i

\* with --reverse the table was printed in ascending order: its first row has
\* the last rank
C6_Witness ==
    /\ pc = "done"
    /\ args.reverse /\ ~args.defense /\ ~args.offense /\ args.top = None
    /\ Len(table) = 3
    /\ table[1].rank = 3
    /\ TotalLess(table[1].overall_rating, table[3].overall_rating)

Unranked(t) ==
    [i \in 1..Len(t) |-> [team |-> t[i].team, overall_rating |-> t[i].overall_rating,
                          defense_rating |-> t[i].defense_rating,
                          offense_rating |-> t[i].offense_rating]]

\* the rows of t whose overall_rating is v, in their order in t
Tied(t, v) ==
    LET HasValue(e) == e.overall_rating = v
    IN  SelectSeq(Unranked(t), HasValue)

OverallRatings == {FAdd(team_ratings[i].defense_rating, team_ratings[i].offense_rating, FALSE) :
                    i \in 1..Len(team_ratings)}

IsPrefix(s, t) == Len(s) <= Len(t) /\ s = SubSeq(t, 1, Len(s))

\* C7 as claimed: in the table ordered by overall_rating, rows of equal
\* overall_rating are in the order their ratings had in the input list.
C7_TiesKeepInputOrder ==
    pc = "options" \/ (pc = "done" /\ result = "ok" /\ Flagless) =>
        \A v \in OverallRatings :
            IsPrefix(Tied(table, v), Tied(NewTable(team_ratings, FALSE), v))

\* C7: in the table ordered by overall_rating, rows of equal overall_rating
\* are in the reverse of the order their ratings had in the input list.
C7_TiesReverseInputOrder ==
    pc = "options" \/ (pc = "done" /\ result = "ok" /\ Flagless) =>
        \A v \in OverallRatings :
            IsPrefix(Tied(table, v), Reverse(Tied(NewTable(team_ratings, FALSE), v)))

\* two teams of equal overall_rating and a third between them in the input:
\* the table has the later of the two first
C7_Witness ==
    /\ pc = "done" /\ Flagless /\ args.top = None
    /\ Len(team_ratings) = 3
    /\ team_ratings[1].name = "A" /\ team_ratings[2].name = "C" /\ team_ratings[3].name = "B"
    /\ IsFinite(team_ratings[1].defense_rating)
    /\ IsFinite(team_ratings[3].defense_rating)
    /\ <<table[1].team, table[2].team, table[3].team>> = <<"B", "A", "C">>
====
